---- MODULE Spec2Model ----
(***************************************************************************)
(* The gclient manifest evaluator of depot_tools (gclient_eval.py):        *)
(* _gclient_eval / _convert, _gclient_exec / _visit_in_module, Check /     *)
(* compare and _GCLIENT_SCHEMA, as a state machine that executes one       *)
(* manifest, compares the scope with an expected scope and validates it.   *)
(*                                                                         *)
(* Strings are sequences of one-character strings, so that concatenation   *)
(* and %-formatting are computed.  A Python value is a record tagged with *)
(* its type t: none, bool (b), int (n), str (s: characters), list / tuple  *)
(* (elts: a sequence of values), dict (items: a sequence of <<key, value>> *)
(* in insertion order, keys pairwise unequal), set (members).              *)
(* A syntax tree node is a record tagged with its class ast, holding the   *)
(* fields of that class under the names of Python's ast module.            *)
(*                                                                         *)
(* The second state machine, SplitSpec, is split_cl.py: SplitCl with its   *)
(* GetFilesSplitByOwners, the merge loop over the trie of candidates, the  *)
(* question to the user and the loop that prints or uploads the CLs.       *)
(***************************************************************************)
EXTENDS Integers, Sequences, FiniteSets, TLC

\* ------------------------------------------------------------ bounds

\* Statements of a manifest made of several statements.
MaxStmts == 3
\* Key/value pairs of an enumerated dict literal.
MaxPairs == 2

\* ------------------------------------------------------------ values

NoneV == [t |-> "none"]
BoolV(b) == [t |-> "bool", b |-> b]
IntV(n) == [t |-> "int", n |-> n]
StrV(s) == [t |-> "str", s |-> s]
ListV(elts) == [t |-> "list", elts |-> elts]
TupleV(elts) == [t |-> "tuple", elts |-> elts]
DictV(items) == [t |-> "dict", items |-> items]
SetV(members) == [t |-> "set", members |-> members]

\* An exception: its class, what it is about, and the name or path it names.
\* exp and act are the fields of CheckFailure (NoneV for the other classes).
Exc(cls, msg, arg) == [exc |-> cls, msg |-> msg, arg |-> arg, exp |-> NoneV, act |-> NoneV]
NoExc == Exc("", "", <<>>)

\* The outcome of evaluating something: a value or an exception, the calls
\* made into the function table on the way, and the final contents of the
\* vars_dict the evaluation worked on.
Ok(val, calls, vd) == [ok |-> TRUE, val |-> val, calls |-> calls, vd |-> vd]
Raise(e, calls, vd) == [ok |-> FALSE, val |-> e, calls |-> calls, vd |-> vd]

IsNum(a) == a.t \in {"bool", "int"}
\* bool is a subclass of int: True is 1 and False is 0.
NumOf(a) == IF a.t = "bool" THEN (IF a.b THEN 1 ELSE 0) ELSE a.n

RECURSIVE PyEq(_, _)
\* Python's a == b.
PyEq(a, b) ==
  IF IsNum(a) /\ IsNum(b) THEN NumOf(a) = NumOf(b)
  ELSE IF a.t # b.t THEN FALSE
  ELSE IF a.t \in {"list", "tuple"}
       THEN /\ Len(a.elts) = Len(b.elts)
            /\ \A i \in 1..Len(a.elts) : PyEq(a.elts[i], b.elts[i])
  ELSE IF a.t = "dict"
       THEN /\ Len(a.items) = Len(b.items)
            /\ \A i \in 1..Len(a.items) : \E j \in 1..Len(b.items) :
                 PyEq(a.items[i][1], b.items[j][1]) /\ PyEq(a.items[i][2], b.items[j][2])
  ELSE IF a.t = "set"
       THEN /\ \A x \in a.members : \E y \in b.members : PyEq(x, y)
            /\ \A y \in b.members : \E x \in a.members : PyEq(x, y)
  ELSE a = b

\* Python's truth value of a.
Truthy(a) ==
  CASE a.t = "none" -> FALSE
    [] a.t = "bool" -> a.b
    [] a.t = "int" -> a.n # 0
    [] a.t = "str" -> a.s # <<>>
    [] a.t = "dict" -> a.items # <<>>
    [] a.t = "set" -> a.members # {}
    [] OTHER -> a.elts # <<>>

RECURSIVE Hashable(_)
\* Whether a may be a dict key.
Hashable(a) ==
  CASE a.t \in {"list", "dict", "set"} -> FALSE
    [] a.t = "tuple" -> \A i \in 1..Len(a.elts) : Hashable(a.elts[i])
    [] OTHER -> TRUE

\* d is the items of a dict: a sequence of <<key, value>>.
DictHas(d, k) == \E i \in 1..Len(d) : PyEq(d[i][1], k)
DictGet(d, k) == d[CHOOSE i \in 1..Len(d) : PyEq(d[i][1], k)][2]
\* d[k] = x: an equal key keeps its place (and the key object), a new one is appended.
DictSet(d, k, x) ==
  IF DictHas(d, k)
  THEN [i \in 1..Len(d) |-> IF PyEq(d[i][1], k) THEN <<d[i][1], x>> ELSE d[i]]
  ELSE Append(d, <<k, x>>)
DictKeys(d) == {d[i][1] : i \in 1..Len(d)}

RECURSIVE DictUpdate(_, _)
\* d.update(e)
DictUpdate(d, e) ==
  IF e = <<>> THEN d
  ELSE DictUpdate(DictSet(d, e[1][1], e[1][2]), Tail(e))

\* ------------------------------------------------------------ strings

\* A helper's outcome: a value, or an exception.
Val(x) == [ok |-> TRUE, val |-> x]
Err(cls, msg) == [ok |-> FALSE, val |-> Exc(cls, msg, <<>>)]

\* What Python's % gives meaning after a "%", other than "s", "d" and "%":
\* the conversions, flags, widths and mapping keys this model does not compute.
FormatSyntax ==
  {"i", "o", "u", "x", "X", "e", "E", "f", "F", "g", "G", "c", "r",
   "#", "0", "-", " ", "+", "*", ".", "h", "l", "L", "(",
   "1", "2", "3", "4", "5", "6", "7", "8", "9"}

Digits == <<"0", "1", "2", "3", "4", "5", "6", "7", "8", "9">>

RECURSIVE IntToStr(_)
\* str(n) for n >= 0.
IntToStr(n) ==
  IF n < 10 THEN <<Digits[n + 1]>>
  ELSE IntToStr(n \div 10) \o <<Digits[(n % 10) + 1]>>

\* repr(s) of a str of printable characters.
ReprStr(s) ==
  LET has(c) == \E i \in 1..Len(s) : s[i] = c
      quote == IF has("'") /\ ~has("\"") THEN "\"" ELSE "'"
      esc[i \in 0..Len(s)] ==
        IF i = 0 THEN <<>>
        ELSE esc[i - 1] \o (IF s[i] \in {"\\", quote} THEN <<"\\", s[i]>> ELSE <<s[i]>>) IN
  <<quote>> \o esc[Len(s)] \o <<quote>>

\* The values whose repr is computed here: all but the dicts of several items
\* and the sets, whose repr is in the order of the hashes.
RECURSIVE HasStr(_)
HasStr(a) ==
  CASE a.t \in {"list", "tuple"} -> \A i \in 1..Len(a.elts) : HasStr(a.elts[i])
    [] a.t = "dict" ->
         Len(a.items) <= 1 /\ \A i \in 1..Len(a.items) : HasStr(a.items[i][1]) /\ HasStr(a.items[i][2])
    [] a.t = "set" -> FALSE
    [] OTHER -> TRUE

RECURSIVE PyRepr(_)
RECURSIVE ReprJoin(_)
\* ", ".join(repr(x) for x in elts)
ReprJoin(elts) ==
  IF elts = <<>> THEN <<>>
  ELSE IF Len(elts) = 1 THEN PyRepr(elts[1])
  ELSE PyRepr(elts[1]) \o <<",", " ">> \o ReprJoin(Tail(elts))

\* repr(a)
PyRepr(a) ==
  CASE a.t = "none" -> <<"N", "o", "n", "e">>
    [] a.t = "bool" -> IF a.b THEN <<"T", "r", "u", "e">> ELSE <<"F", "a", "l", "s", "e">>
    [] a.t = "int" -> IntToStr(a.n)
    [] a.t = "str" -> ReprStr(a.s)
    [] a.t = "list" -> <<"[">> \o ReprJoin(a.elts) \o <<"]">>
    [] a.t = "tuple" ->
         <<"(">> \o ReprJoin(a.elts) \o (IF Len(a.elts) = 1 THEN <<",", ")">> ELSE <<")">>)
    [] a.t = "dict" ->
         IF a.items = <<>> THEN <<"{", "}">>
         ELSE <<"{">> \o PyRepr(a.items[1][1]) \o <<":", " ">> \o PyRepr(a.items[1][2]) \o <<"}">>

\* str(a)
PyStr(a) == IF a.t = "str" THEN a.s ELSE PyRepr(a)

RECURSIVE FormatScan(_, _, _, _, _)
\* The scan of a format string from position i: args are the arguments not
\* yet consumed, out is the text produced so far; arguments left over are an
\* error unless the right operand was a mapping.
FormatScan(fmt, i, args, out, mapping) ==
  IF i > Len(fmt)
  THEN IF args # <<>> /\ ~mapping
       THEN Err("TypeError", "not all arguments converted during string formatting")
       ELSE Val(StrV(out))
  ELSE IF fmt[i] # "%" THEN FormatScan(fmt, i + 1, args, Append(out, fmt[i]), mapping)
  ELSE IF i = Len(fmt) THEN Err("ValueError", "incomplete format")
  ELSE IF fmt[i + 1] = "%" THEN FormatScan(fmt, i + 2, args, Append(out, "%"), mapping)
  ELSE IF fmt[i + 1] \in FormatSyntax THEN Err("Unmodelled", "format syntax")
  ELSE IF args = <<>> THEN Err("TypeError", "not enough arguments for format string")
  ELSE IF fmt[i + 1] = "s"
       THEN IF HasStr(args[1])
            THEN FormatScan(fmt, i + 2, Tail(args), out \o PyStr(args[1]), mapping)
            ELSE Err("Unmodelled", "repr in the order of the hashes")
  ELSE IF fmt[i + 1] = "d"
       THEN IF IsNum(args[1])
            THEN FormatScan(fmt, i + 2, Tail(args), out \o IntToStr(NumOf(args[1])), mapping)
            ELSE Err("TypeError", "%d format: a number is required")
  ELSE Err("ValueError", "unsupported format character")

\* fmt % arg for a string fmt: a tuple gives the arguments, any other value
\* is the one argument; a list or a dict is one argument too, and being a
\* mapping it need not be consumed.
PyFormat(fmt, arg) ==
  FormatScan(fmt, 1, IF arg.t = "tuple" THEN arg.elts ELSE <<arg>>, <<>>,
             arg.t \in {"list", "dict"})

\* a + b
PyAdd(a, b) ==
  IF IsNum(a) /\ IsNum(b) THEN Val(IntV(NumOf(a) + NumOf(b)))
  ELSE IF a.t = "str" /\ b.t = "str" THEN Val(StrV(a.s \o b.s))
  ELSE IF a.t = b.t /\ a.t \in {"list", "tuple"}
       THEN Val([t |-> a.t, elts |-> a.elts \o b.elts])
  ELSE Err("TypeError", "unsupported operand type(s) for +")

\* a % b (the numbers of this model are never negative)
PyMod(a, b) ==
  IF IsNum(a) /\ IsNum(b)
  THEN IF NumOf(b) = 0
       THEN Err("ZeroDivisionError", "integer division or modulo by zero")
       ELSE Val(IntV(NumOf(a) % NumOf(b)))
  ELSE IF a.t = "str" THEN PyFormat(a.s, b)
  ELSE Err("TypeError", "unsupported operand type(s) for %")

\* ------------------------------------------------------------ syntax trees

Str(s) == [ast |-> "Str", s |-> s]
Tuple(elts) == [ast |-> "Tuple", elts |-> elts]
List(elts) == [ast |-> "List", elts |-> elts]
\* pairs is zip(node.keys, node.values)
Dict(pairs) ==
  [ast |-> "Dict", keys |-> [i \in 1..Len(pairs) |-> pairs[i][1]],
   values |-> [i \in 1..Len(pairs) |-> pairs[i][2]]]
Name(id) == [ast |-> "Name", id |-> id]
\* An absent optional child (Python's None in a node field).
NoNode == [ast |-> "None"]
CallFull(func, args, keywords, starargs, kwargs) ==
  [ast |-> "Call", func |-> func, args |-> args, keywords |-> keywords,
   starargs |-> starargs, kwargs |-> kwargs]
Call(id, args) == CallFull(Name(id), args, <<>>, NoNode, NoNode)
BinOp(op, left, right) == [ast |-> "BinOp", op |-> op, left |-> left, right |-> right]
BoolOp(op, values) == [ast |-> "BoolOp", op |-> op, values |-> values]
UnaryOp(op, operand) == [ast |-> "UnaryOp", op |-> op, operand |-> operand]
\* Expression kinds _convert has no branch for.
Num(n) == [ast |-> "Num", n |-> n]
Lambda(body) == [ast |-> "Lambda", body |-> body]
Subscript(value, slice) == [ast |-> "Subscript", value |-> value, slice |-> slice]
Attribute(value, attr) == [ast |-> "Attribute", value |-> value, attr |-> attr]
\* Statements and the module.
Assign(targets, value) == [ast |-> "Assign", targets |-> targets, value |-> value]
ExprStmt(value) == [ast |-> "Expr", value |-> value]
Module(body) == [ast |-> "Module", body |-> body]

\* ------------------------------------------------------------ the function table

\* The callables a caller's table holds in this model:
\*   pack(*args) returns tuple(args); join(*args) returns "".join(args).
RECURSIVE Joined(_)
Joined(args) == IF args = <<>> THEN <<>> ELSE args[1].s \o Joined(Tail(args))

\* global_scope[id](*args)
Apply(fn, args) ==
  IF fn = "pack" THEN Val(TupleV(args))
  ELSE IF \A i \in 1..Len(args) : args[i].t = "str" THEN Val(StrV(Joined(args)))
  ELSE Err("TypeError", "sequence item: expected string")

\* ------------------------------------------------------------ _gclient_eval

s_None == <<"N", "o", "n", "e">>
s_True == <<"T", "r", "u", "e">>
s_False == <<"F", "a", "l", "s", "e">>
s_vars == <<"v", "a", "r", "s">>

\* _allowed_names, as the items of a dict.
allowed_names ==
  << <<StrV(s_None), NoneV>>, <<StrV(s_True), BoolV(TRUE)>>, <<StrV(s_False), BoolV(FALSE)>> >>

\* No copy: the callee works on the caller's dict.
deepcopy_shared(caller_dict, callee_dict) == callee_dict

\* _convert starts with vars_dict = copy.deepcopy(vars_dict): whatever the
\* callee then does to its dict (callee_dict is what it ends with), the
\* caller's dict is what it was.
deepcopy(caller_dict, callee_dict) == caller_dict

RECURSIVE convert(_, _, _)
RECURSIVE convert_seq(_, _, _)
RECURSIVE convert_dict(_, _, _, _, _, _)

\* map(vars_convert, nodes): the nodes in order, each given the caller's vars_dict.
convert_seq(nodes, vars_dict, cx) ==
  IF nodes = <<>> THEN Ok(<<>>, <<>>, vars_dict)
  ELSE LET r == convert(nodes[1], vars_dict, cx) IN
       IF ~r.ok THEN r
       ELSE LET rest == convert_seq(Tail(nodes), deepcopy(vars_dict, r.vd), cx) IN
            IF ~rest.ok THEN Raise(rest.val, r.calls \o rest.calls, rest.vd)
            ELSE Ok(<<r.val>> \o rest.val, r.calls \o rest.calls, rest.vd)

\* The loop of the ast.Dict branch over zip(node.keys, node.values).
convert_dict(keys, values, vars_dict, result, calls, cx) ==
  IF keys = <<>> \/ values = <<>> THEN Ok(DictV(result), calls, vars_dict)
  ELSE LET c_k == convert(keys[1], vars_dict, cx) IN
       IF ~c_k.ok THEN Raise(c_k.val, calls \o c_k.calls, c_k.vd)
       ELSE LET vd1 == deepcopy(vars_dict, c_k.vd)
                c_v == convert(values[1], vd1, cx) IN
            IF ~c_v.ok THEN Raise(c_v.val, calls \o c_k.calls \o c_v.calls, c_v.vd)
            ELSE LET vd2 == deepcopy(vd1, c_v.vd) IN
                 IF ~Hashable(c_k.val)
                 THEN Raise(Exc("TypeError", "unhashable type", <<>>),
                            calls \o c_k.calls \o c_v.calls, vd2)
                 ELSE convert_dict(Tail(keys), Tail(values),
                                   IF cx.expose_vars THEN DictSet(vd2, c_k.val, c_v.val) ELSE vd2,
                                   DictSet(result, c_k.val, c_v.val),
                                   calls \o c_k.calls \o c_v.calls, cx)

\* a binary operator on two evaluated operands
binop(op, r) ==
  LET x == IF op = "Add" THEN PyAdd(r.val[1], r.val[2]) ELSE PyMod(r.val[1], r.val[2]) IN
  IF x.ok THEN Ok(x.val, r.calls, r.vd) ELSE Raise(x.val, r.calls, r.vd)

\* Both operands evaluated before the choice between them.
boolop_eager(op, values, vd, cx) ==
  LET l == convert(values[1], vd, cx) IN
  IF ~l.ok THEN l
  ELSE LET r == convert(values[2], deepcopy(vd, l.vd), cx) IN
       IF ~r.ok THEN Raise(r.val, l.calls \o r.calls, r.vd)
       ELSE Ok(IF (op = "Or") = Truthy(l.val) THEN l.val ELSE r.val,
               l.calls \o r.calls, deepcopy(vd, r.vd))

\* `left or right` / `left and right` of Python, on the two operand nodes
boolop(op, values, vd, cx) ==
  LET l == convert(values[1], vd, cx) IN
  IF ~l.ok THEN l
  ELSE IF (op = "Or") = Truthy(l.val) THEN Ok(l.val, l.calls, deepcopy(vd, l.vd))
  ELSE LET r == convert(values[2], deepcopy(vd, l.vd), cx) IN
       IF r.ok THEN Ok(r.val, l.calls \o r.calls, deepcopy(vd, r.vd))
       ELSE Raise(r.val, l.calls \o r.calls, r.vd)

\* Any shape of arguments let through.
regular_args_unchecked(node) == TRUE

\* not (node.keywords or node.starargs or node.kwargs)
regular_args(node) == node.keywords = <<>> /\ node.starargs = NoNode /\ node.kwargs = NoNode

\* The ast.Call branch.
call(node, vd, cx) ==
  IF node.func.ast # "Name"
  THEN Raise(Exc("ValueError", "invalid call: func should be a name", <<>>), <<>>, vd)
  ELSE IF ~regular_args(node)
  THEN Raise(Exc("ValueError", "invalid call: use only regular args", <<>>), <<>>, vd)
  ELSE LET args == convert_seq(node.args, vd, cx)
           id == node.func.id IN
       IF ~args.ok THEN args
       ELSE IF id \notin DOMAIN cx.global_scope
       THEN Raise(Exc("KeyError", "global_scope", id), args.calls, args.vd)
       ELSE LET x == Apply(cx.global_scope[id], args.val)
                made == Append(args.calls, [fn |-> id, args |-> args.val]) IN
            IF x.ok THEN Ok(x.val, made, args.vd) ELSE Raise(x.val, made, args.vd)

\* A node without a branch taken for None.
unexpected_ignored(node, vd) == Ok(NoneV, <<>>, vd)

\* The last branch of _convert: no branch is for this node.
unexpected(node, vd) == Raise(Exc("ValueError", "unexpected AST node", <<>>), <<>>, vd)

\* The constants merged once, into the dict of the outermost call only.
update_once(vars_dict) ==
  IF vars_dict = <<>> THEN DictUpdate(vars_dict, allowed_names) ELSE vars_dict

\* vars_dict.update(_allowed_names), on the copy each _convert call makes.
update(vars_dict) == DictUpdate(vars_dict, allowed_names)

\* _convert(node, vars_dict), with expose_vars and global_scope in cx.
convert(node, vars_dict, cx) ==
  LET vd == update(vars_dict) IN
  CASE node.ast = "Str" -> Ok(StrV(node.s), <<>>, vd)
    [] node.ast = "Tuple" ->
         LET r == convert_seq(node.elts, vd, cx) IN
         IF r.ok THEN Ok(TupleV(r.val), r.calls, r.vd) ELSE r
    [] node.ast = "List" ->
         LET r == convert_seq(node.elts, vd, cx) IN
         IF r.ok THEN Ok(ListV(r.val), r.calls, r.vd) ELSE r
    [] node.ast = "Dict" -> convert_dict(node.keys, node.values, vd, <<>>, <<>>, cx)
    [] node.ast = "Name" ->
         IF ~DictHas(vd, StrV(node.id))
         THEN Raise(Exc("ValueError", "invalid name", node.id), <<>>, vd)
         ELSE Ok(DictGet(vd, StrV(node.id)), <<>>, vd)
    [] node.ast = "Call" -> call(node, vd, cx)
    [] node.ast = "BinOp" /\ node.op \in {"Add", "Mod"} ->
         LET r == convert_seq(<<node.left, node.right>>, vd, cx) IN
         IF r.ok THEN binop(node.op, r) ELSE r
    [] node.ast = "BoolOp" /\ node.op \in {"Or", "And"} ->
         IF Len(node.values) # 2
         THEN Raise(Exc("ValueError", "exactly 2 operands required", <<>>), <<>>, vd)
         ELSE boolop(node.op, node.values, vd, cx)
    [] node.ast = "UnaryOp" /\ node.op = "Not" ->
         LET r == convert(node.operand, vd, cx) IN
         IF r.ok THEN Ok(BoolV(~Truthy(r.val)), r.calls, deepcopy(vd, r.vd)) ELSE r
    [] OTHER -> unexpected(node, vd)

\* _gclient_eval(node, global_scope, expose_vars=...): _convert(node) with no vars_dict.
gclient_eval(node, global_scope, expose_vars) ==
  convert(node, <<>>, [expose_vars |-> expose_vars, global_scope |-> global_scope])

\* ------------------------------------------------------------ state

VARIABLES
  content,         \* Check's |content|, parsed: the tree _gclient_exec is given
  global_scope,    \* the caller's function table: identifier -> callable
  expected_scope,  \* Check's |expected_scope|
  pc,              \* where Check is: "exec", "compare", "validate", "done"
  idx,             \* _gclient_exec: the position of the loop over node.body
  result_scope,    \* _gclient_exec's result_scope, as the items of a dict
  value,           \* _visit_in_module: what the last _gclient_eval gave
  calls,           \* the calls made into the function table so far
  failure          \* the exception that ended Check, or NoExc

\* The state of one run of split_cl.py's SplitCl, or of one call of its
\* GetFilesSplitByOwners.
VARIABLES
  entry,           \* the function that was called: "SplitCl" or "GetFilesSplitByOwners"
  files,           \* the AffectedFiles of the change: [path, size]
  owners_database, \* the OWNERS files: directory -> the owners it lists
  cl_size,         \* GetFilesSplitByOwners's |cl_size|
  cq_dry_run,      \* SplitCl's |cq_dry_run|
  dry_run,         \* SplitCl's |dry_run|
  answer,          \* what the user types if raw_input asks
  at,              \* where the run is
  candidates,      \* the trie |candidates|: path -> ClCandidate
  items,           \* the paths of candidates.items() the for loop has yet to visit
  edited,          \* the merge loop's |edited|
  change_lists,    \* the list |change_lists| of ClCandidates
  files_split_by_owners, \* the map GetFilesSplitByOwners returns: path -> files
  prompted,        \* whether raw_input has asked the user
  existing_branches, \* the directories whose branch existed before the run
  branches,        \* the directories a branch was created for
  uploaded,        \* the directories whose CL cmd_upload has uploaded
  printed,         \* the directories PrintClInfo has printed
  returned         \* SplitCl's return code, NoReturn while it runs

eval_vars ==
  <<content, global_scope, expected_scope, pc, idx, result_scope, value, calls, failure>>

split_vars ==
  <<entry, files, owners_database, cl_size, cq_dry_run, dry_run, answer, at, candidates,
    items, edited, change_lists, files_split_by_owners, prompted, existing_branches,
    branches, uploaded, printed, returned>>

vars == <<eval_vars, split_vars>>

\* No _gclient_eval has run yet.
NoValue == Raise(NoExc, <<>>, <<>>)

Running == failure = NoExc

\* ------------------------------------------------------------ _gclient_exec

\* Every dict literal exposed, whatever it is assigned to.
expose_always(target) == TRUE

\* expose_vars=(target.id == 'vars')
expose_vars(target) == target.id = s_vars

\* The assignment without the check for an earlier one.
assign_overriding(scope, id, x) == [exc |-> NoExc, scope |-> DictSet(scope, StrV(id), x)]

\* `if target.id in result_scope: raise ...` and `result_scope[target.id] = value`
assign(scope, id, x) ==
  IF DictHas(scope, StrV(id))
  THEN [exc |-> Exc("ValueError", "invalid assignment: overrides var", id), scope |-> scope]
  ELSE [exc |-> NoExc, scope |-> DictSet(scope, StrV(id), x)]

\* What _visit_in_module(node) does to result_scope: the exception it raises
\* or the scope with the binding added, and the evaluation it made.
visit_in_module(node, scope, table) ==
  IF node.ast # "Assign"
  THEN [exc |-> Exc("ValueError", "unexpected AST node", <<>>), scope |-> scope, value |-> NoValue]
  ELSE IF Len(node.targets) # 1
  THEN [exc |-> Exc("ValueError", "invalid assignment: use exactly one target", <<>>),
        scope |-> scope, value |-> NoValue]
  ELSE LET target == node.targets[1] IN
       IF target.ast # "Name"
       THEN [exc |-> Exc("ValueError", "invalid assignment: target should be a name", <<>>),
             scope |-> scope, value |-> NoValue]
       ELSE LET v == gclient_eval(node.value, table, expose_vars(target)) IN
            IF ~v.ok THEN [exc |-> v.val, scope |-> scope, value |-> v]
            ELSE LET b == assign(scope, target.id, v.val) IN
                 [exc |-> b.exc, scope |-> b.scope, value |-> v]

\* The tree is not an ast.Module: _gclient_exec raises.
ExecNotModule ==
  /\ Running /\ pc = "exec" /\ content.ast # "Module"
  /\ failure' = Exc("ValueError", "unexpected AST node", <<>>)
  /\ UNCHANGED <<content, global_scope, expected_scope, pc, idx, result_scope, value, calls,
                 split_vars>>

\* One turn of `for stmt in node_or_string.body: _visit_in_module(stmt)`.
VisitInModule ==
  /\ Running /\ pc = "exec" /\ content.ast = "Module" /\ idx <= Len(content.body)
  /\ LET r == visit_in_module(content.body[idx], result_scope, global_scope) IN
       /\ value' = r.value
       /\ calls' = calls \o r.value.calls
       /\ result_scope' = r.scope
       /\ failure' = r.exc
       /\ idx' = IF r.exc = NoExc THEN idx + 1 ELSE idx
  /\ UNCHANGED <<content, global_scope, expected_scope, pc,
                 split_vars>>

\* `return result_scope`, back in Check.
ExecReturn ==
  /\ Running /\ pc = "exec" /\ content.ast = "Module" /\ idx > Len(content.body)
  /\ pc' = "compare"
  /\ UNCHANGED <<content, global_scope, expected_scope, idx, result_scope, value, calls, failure,
                 split_vars>>

\* ------------------------------------------------------------ Check.compare

\* CheckFailure(msg, path, exp, act); arg holds the path.
CheckFailure(path, exp, act) ==
  [exc |-> "CheckFailure", msg |-> "gclient check", arg |-> path, exp |-> exp, act |-> act]

\* The failure without the path.
fail_without_path(prefix, exp, act) == CheckFailure(<<>>, exp, act)

\* Check's fail(prefix, exp, act)
fail(prefix, exp, act) == CheckFailure(prefix, exp, act)

\* actual[i] for the index i of range(len(expected)).
Subscript0(actual, i) ==
  CASE actual.t \in {"list", "tuple"} -> Val(actual.elts[i + 1])
    [] actual.t = "str" -> Val(StrV(<<actual.s[i + 1]>>))
    [] actual.t = "dict" ->
         IF DictHas(actual.items, IntV(i)) THEN Val(DictGet(actual.items, IntV(i)))
         ELSE Err("KeyError", "actual[i]")
    [] OTHER -> Err("TypeError", "object has no attribute '__getitem__'")

\* len(a), for a value that has one
PyLen(a) ==
  CASE a.t = "str" -> Len(a.s)
    [] a.t = "dict" -> Len(a.items)
    [] a.t = "set" -> Cardinality(a.members)
    [] OTHER -> Len(a.elts)

RECURSIVE compare(_, _, _, _)
RECURSIVE compare_keys(_, _, _, _, _)
RECURSIVE compare_range(_, _, _, _, _)

\* `for k in expected: compare(expected[k], actual[k], var_path + '["%s"]' % k, ...)`,
\* from the i-th key of expected on.
compare_keys(expected, actual, var_path, scopes, i) ==
  IF i > Len(expected.items) THEN NoExc
  ELSE LET k == expected.items[i][1]
           sub == PyFormat(<<"[", "\"", "%", "s", "\"", "]">>, k) IN
       IF ~sub.ok THEN sub.val
       ELSE LET e == compare(expected.items[i][2], DictGet(actual.items, k),
                             var_path \o sub.val.s, scopes) IN
            IF e # NoExc THEN e
            ELSE compare_keys(expected, actual, var_path, scopes, i + 1)

\* `for i in range(exp): compare(expected[i], actual[i], var_path + '[%d]' % i, ...)`,
\* from index i on.
compare_range(expected, actual, var_path, scopes, i) ==
  IF i >= Len(expected.elts) THEN NoExc
  ELSE LET a == Subscript0(actual, i) IN
       IF ~a.ok THEN a.val
       ELSE LET e == compare(expected.elts[i + 1], a.val,
                             var_path \o <<"[">> \o IntToStr(i) \o <<"]">>, scopes) IN
            IF e # NoExc THEN e
            ELSE compare_range(expected, actual, var_path, scopes, i + 1)

\* compare(expected, actual, var_path, actual_scope): the exception it raises,
\* or NoExc.  scopes holds Check's expected_scope and compare's actual_scope.
compare(expected, actual, var_path, scopes) ==
  IF expected.t = "dict"
  THEN IF actual.t # "dict"
       THEN Exc("AttributeError", "object has no attribute 'keys'", var_path)
       ELSE LET exp == SetV(DictKeys(expected.items))
                act == SetV(DictKeys(actual.items)) IN
            IF ~PyEq(exp, act) THEN fail(var_path, exp, act)
            ELSE compare_keys(expected, actual, var_path, scopes, 1)
  ELSE IF expected.t = "list"
  THEN IF actual.t \in {"none", "bool", "int"}
       THEN Exc("TypeError", "object has no len()", var_path)
       ELSE IF Len(expected.elts) # PyLen(actual)
       THEN fail(<<"l", "e", "n", "(">> \o var_path \o <<")">>,
                 scopes.expected_scope, scopes.actual_scope)
       ELSE compare_range(expected, actual, var_path, scopes, 0)
  ELSE IF ~PyEq(expected, actual)
       THEN fail(var_path, scopes.expected_scope, scopes.actual_scope)
       ELSE NoExc

\* `compare(expected_scope, result_scope, '', result_scope)` in Check.
Compare ==
  /\ Running /\ pc = "compare"
  /\ LET e == compare(expected_scope, DictV(result_scope), <<>>,
                      [expected_scope |-> expected_scope,
                       actual_scope |-> DictV(result_scope)]) IN
       /\ failure' = e
       /\ pc' = IF e = NoExc THEN "validate" ELSE pc
  /\ UNCHANGED <<content, global_scope, expected_scope, idx, result_scope, value, calls,
                 split_vars>>

\* ------------------------------------------------------------ _GCLIENT_SCHEMA

s_allowed_hosts == <<"a", "l", "l", "o", "w", "e", "d", "_", "h", "o", "s", "t", "s">>
s_deps == <<"d", "e", "p", "s">>
s_deps_os == <<"d", "e", "p", "s", "_", "o", "s">>
s_hooks == <<"h", "o", "o", "k", "s">>
s_hooks_os == <<"h", "o", "o", "k", "s", "_", "o", "s">>
s_include_rules == <<"i", "n", "c", "l", "u", "d", "e", "_", "r", "u", "l", "e", "s">>
s_pre_deps_hooks == <<"p", "r", "e", "_", "d", "e", "p", "s", "_", "h", "o", "o", "k", "s">>
s_recursedeps == <<"r", "e", "c", "u", "r", "s", "e", "d", "e", "p", "s">>
s_skip_child_includes == <<"s", "k", "i", "p", "_", "c", "h", "i", "l", "d", "_", "i", "n", "c", "l", "u", "d", "e", "s">>
s_specific_include_rules == <<"s", "p", "e", "c", "i", "f", "i", "c", "_", "i", "n", "c", "l", "u", "d", "e", "_", "r", "u", "l", "e", "s">>
s_target_os == <<"t", "a", "r", "g", "e", "t", "_", "o", "s">>
s_use_relative_paths == <<"u", "s", "e", "_", "r", "e", "l", "a", "t", "i", "v", "e", "_", "p", "a", "t", "h", "s">>
s_action == <<"a", "c", "t", "i", "o", "n">>
s_name == <<"n", "a", "m", "e">>
s_pattern == <<"p", "a", "t", "t", "e", "r", "n">>
s_url == <<"u", "r", "l">>

\* A schema is a record tagged with its flavour k: a type to be an instance
\* of, a value to be equal to, Optional(schema), Or(schemas), a list or a
\* tuple of the alternatives of each element, or a dict of <<key schema,
\* value schema>>.
TypeS(name) == [k |-> "type", type |-> name]
ValueS(x) == [k |-> "value", value |-> x]
OptionalS(x) == [k |-> "Optional", schema |-> x]
OrS(alts) == [k |-> "Or", alts |-> alts]
ListS(alts) == [k |-> "list", alts |-> alts]
TupleS(alts) == [k |-> "tuple", alts |-> alts]
DictS(pairs) == [k |-> "dict", items |-> pairs]

basestring == TypeS("basestring")
OptKey(k) == OptionalS(ValueS(StrV(k)))

GCLIENT_HOOKS_SCHEMA ==
  ListS(<< DictS(<< <<ValueS(StrV(s_action)), ListS(<<basestring>>)>>,
                    <<OptKey(s_name), basestring>>,
                    <<OptKey(s_pattern), basestring>> >>) >>)

\* deps without the {'url': ...} alternative.
deps_schema_strings == DictS(<< <<OptionalS(basestring), basestring>> >>)

deps_schema ==
  DictS(<< <<OptionalS(basestring),
             OrS(<<basestring, DictS(<< <<ValueS(StrV(s_url)), basestring>> >>)>>)>> >>)

recursedeps_schema ==
  ListS(<< OptionalS(OrS(<<basestring,
                          TupleS(<<basestring, basestring>>),
                          ListS(<<basestring, basestring>>)>>)) >>)

GCLIENT_SCHEMA ==
  DictS(<<
    <<OptKey(s_allowed_hosts), ListS(<<OptionalS(basestring)>>)>>,
    <<OptKey(s_deps), deps_schema>>,
    <<OptKey(s_deps_os),
      DictS(<< <<OptionalS(basestring),
                 DictS(<< <<OptionalS(basestring), OrS(<<basestring, ValueS(NoneV)>>)>> >>)>> >>)>>,
    <<OptKey(s_hooks), GCLIENT_HOOKS_SCHEMA>>,
    <<OptKey(s_hooks_os), DictS(<< <<OptionalS(basestring), GCLIENT_HOOKS_SCHEMA>> >>)>>,
    <<OptKey(s_include_rules), ListS(<<OptionalS(basestring)>>)>>,
    <<OptKey(s_pre_deps_hooks), GCLIENT_HOOKS_SCHEMA>>,
    <<OptKey(s_recursedeps), recursedeps_schema>>,
    <<OptKey(s_skip_child_includes), ListS(<<OptionalS(basestring)>>)>>,
    <<OptKey(s_specific_include_rules),
      DictS(<< <<OptionalS(basestring), ListS(<<basestring>>)>> >>)>>,
    <<OptKey(s_target_os), ListS(<<OptionalS(basestring)>>)>>,
    <<OptKey(s_use_relative_paths), TypeS("bool")>>,
    <<OptKey(s_vars),
      DictS(<< <<OptionalS(basestring), OrS(<<basestring, TypeS("bool")>>)>> >>)>>
  >>)

\* isinstance(data, type)
IsInstance(data, name) ==
  CASE name = "basestring" -> data.t = "str"
    [] name = "bool" -> data.t = "bool"
    [] OTHER -> data.t = name

RECURSIVE schema_validate(_, _)

\* Schema(s).validate(data) of the schema library: the SchemaError it raises, or NoExc.
schema_validate(s, data) ==
  LET Valid(x, d) == schema_validate(x, d) = NoExc
      \* the first schema key of a dict schema that accepts the key, or 0
      Match(key) ==
        IF \E j \in 1..Len(s.items) : Valid(s.items[j][1], key)
        THEN CHOOSE j \in 1..Len(s.items) :
               Valid(s.items[j][1], key) /\ \A h \in 1..(j - 1) : ~Valid(s.items[h][1], key)
        ELSE 0
  IN
  CASE s.k = "type" ->
         IF IsInstance(data, s.type) THEN NoExc
         ELSE Exc("SchemaError", "should be instance of", <<>>)
    [] s.k = "value" ->
         IF PyEq(s.value, data) THEN NoExc ELSE Exc("SchemaError", "does not match", <<>>)
    [] s.k = "Optional" -> schema_validate(s.schema, data)
    [] s.k = "Or" ->
         IF \E j \in 1..Len(s.alts) : Valid(s.alts[j], data) THEN NoExc
         ELSE Exc("SchemaError", "did not validate", <<>>)
    [] s.k \in {"list", "tuple"} ->
         IF data.t # s.k THEN Exc("SchemaError", "should be instance of", <<>>)
         ELSE IF \A i \in 1..Len(data.elts) :
                   \E j \in 1..Len(s.alts) : Valid(s.alts[j], data.elts[i])
         THEN NoExc
         ELSE Exc("SchemaError", "did not validate", <<>>)
    [] s.k = "dict" ->
         IF data.t # "dict" THEN Exc("SchemaError", "should be instance of", <<>>)
         ELSE IF \E i \in 1..Len(data.items) :
                   Match(data.items[i][1]) # 0
                   /\ ~Valid(s.items[Match(data.items[i][1])][2], data.items[i][2])
         THEN Exc("SchemaError", "invalid value for key", <<>>)
         ELSE IF \E j \in 1..Len(s.items) :
                   s.items[j][1].k # "Optional"
                   /\ \A i \in 1..Len(data.items) : Match(data.items[i][1]) # j
         THEN Exc("SchemaMissingKeyError", "missing keys", <<>>)
         ELSE IF \E i \in 1..Len(data.items) : Match(data.items[i][1]) = 0
         THEN Exc("SchemaWrongKeyError", "wrong keys", <<>>)
         ELSE NoExc

\* `_GCLIENT_SCHEMA.validate(result_scope)`, the last statement of Check.
Validate ==
  /\ Running /\ pc = "validate"
  /\ LET e == schema_validate(GCLIENT_SCHEMA, DictV(result_scope)) IN
       /\ failure' = e
       /\ pc' = IF e = NoExc THEN "done" ELSE pc
  /\ UNCHANGED <<content, global_scope, expected_scope, idx, result_scope, value, calls,
                 split_vars>>

\* ------------------------------------------------------------ inputs

\* More bounds of the enumerated trees.
MaxElts == 2
MaxOperands == 3

SeqsUpTo(S, n) == UNION {[1..k -> S] : k \in 0..n}

id_a == <<"a">>
id_b == <<"b">>
id_k == <<"k">>
id_y == <<"y">>
id_f == <<"f">>
id_j == <<"j">>
id_g == <<"g">>

\* The function table of every run: f packs its arguments, j joins them.
Table == (id_f :> "pack") @@ (id_j :> "join")

Atoms ==
  {Str(<<>>), Str(id_a), Str(id_y), Name(id_a), Name(s_True), Name(s_None), Num(1)}

\* Dict literals: string keys (one of them a constant's name), an unhashable
\* key, and values that read names.
DictKeyNodes == {Str(id_a), Str(id_b), Str(s_True)}
DictValNodes ==
  {Str(id_y), Name(id_a), Name(id_b), Name(s_True), BinOp("Add", Name(id_a), Str(id_y))}
FlatDicts == {Dict(p) : p \in SeqsUpTo(DictKeyNodes \X DictValNodes, MaxPairs)}

SeqNodes == UNION {{Tuple(e), List(e)} : e \in SeqsUpTo(Atoms, MaxElts)}

BinOps == {BinOp(op, l, r) : op \in {"Add", "Mod", "Sub"}, l \in Atoms, r \in Atoms}
            \cup {BinOp("Mod", Str(<<"%", "s">>), r) : r \in Atoms}
            \cup {BinOp("Mod", Str(<<"%", "s", "%", "s">>), Tuple(<<l, r>>)) : l \in Atoms, r \in Atoms}

BoolOperands == {Str(<<>>), Str(id_a), Name(id_b), Num(1), Call(id_f, <<Str(id_y)>>)}
BoolOps ==
  {BoolOp(op, vs) : op \in {"Or", "And"},
                    vs \in SeqsUpTo(BoolOperands, MaxOperands) \ {<<>>}}

UnaryOps == {UnaryOp(op, x) : op \in {"Not", "USub"}, x \in Atoms}

CalleeNodes ==
  {Name(id_f), Name(id_j), Name(id_g), Name(s_True), Attribute(Name(id_f), id_a), Lambda(Str(id_a))}
ArgNodes == {Str(id_a), Str(id_y), Name(id_b), Num(1)}
\* <<keywords, starargs, kwargs>> of a call
CallShapes ==
  {<< <<>>, NoNode, NoNode >>,
   << <<[ast |-> "keyword", arg |-> id_k, value |-> Str(id_a)]>>, NoNode, NoNode >>,
   << <<>>, Name(id_a), NoNode >>, << <<>>, NoNode, Name(id_a) >>}
Calls ==
  {CallFull(fn, args, sh[1], sh[2], sh[3]) :
     fn \in CalleeNodes, args \in SeqsUpTo(ArgNodes, MaxElts), sh \in CallShapes}

\* A node in every operand and element position of every kind of parent (a
\* dict literal of several pairs is not formatted: its text is in the order of
\* the hashes).
Wrap(e) ==
  {List(<<e>>), List(<<Str(id_y), e>>), List(<<e, Name(id_a)>>),
   Tuple(<<e>>), Tuple(<<e, Name(id_a)>>),
   Dict(<< <<e, Str(id_y)>> >>), Dict(<< <<Str(id_k), e>> >>),
   Dict(<< <<Str(id_a), Str(id_y)>>, <<Str(id_k), e>> >>),
   Dict(<< <<Str(id_k), e>>, <<Str(id_b), Name(id_a)>> >>),
   Call(id_f, <<e>>), Call(id_f, <<e, Name(id_a)>>), Call(id_g, <<e>>),
   BinOp("Add", e, Str(id_y)), BinOp("Add", Str(id_y), e), BinOp("Add", e, Name(id_a)),
   BinOp("Mod", e, Str(id_y)),
   BoolOp("Or", <<e, Str(id_y)>>), BoolOp("Or", <<Str(<<>>), e>>), BoolOp("Or", <<Str(id_a), e>>),
   BoolOp("And", <<e, Str(id_y)>>), BoolOp("And", <<Str(id_a), e>>), BoolOp("And", <<Str(<<>>), e>>),
   UnaryOp("Not", e)}
    \cup (IF e.ast = "Dict" /\ Len(e.keys) > 1 THEN {}
          ELSE {BinOp("Mod", Str(<<"%", "s">>), e)})

Inner ==
  Atoms \cup
  {Dict(<< <<Str(id_a), Str(id_y)>> >>),
   Dict(<< <<Str(id_a), Str(id_y)>>, <<Str(id_b), Name(id_a)>> >>),
   Dict(<< <<Str(s_True), Str(id_y)>>, <<Str(id_b), Name(s_True)>> >>),
   List(<<Str(id_a)>>), Tuple(<<Str(id_a), Str(id_y)>>),
   Dict(<< <<Str(id_a), Str(id_y)>>, <<Str(id_b), Call(id_a, <<Str(id_y)>>)>> >>),
   Dict(<< <<List(<<>>), Str(id_y)>> >>),
   Call(id_f, <<Str(id_a)>>), Call(id_j, <<Str(id_a), Str(id_y)>>),
   Lambda(Str(id_a)), Subscript(Name(id_a), Str(id_a)),
   BinOp("Sub", Str(id_a), Str(id_y)), UnaryOp("USub", Str(id_a)),
   BoolOp("Or", <<Str(id_a), Str(id_y), Str(id_a)>>)}
InnerDeep ==
  {Str(id_a), Name(id_a), Num(1), Lambda(Str(id_a)), Dict(<< <<Str(id_a), Str(id_y)>> >>)}

Wrapped == UNION {Wrap(e) : e \in Inner}
WrappedDeep == UNION {Wrap(w) : w \in UNION {Wrap(e) : e \in InnerDeep}}

EvalExprs ==
  Atoms \cup FlatDicts \cup SeqNodes \cup BinOps \cup BoolOps \cup UnaryOps \cup Calls \cup Wrapped

\* One assignment, to `vars` or to another name.
OneStatement ==
  {Module(<<Assign(<<Name(t)>>, e)>>) : t \in {s_vars, id_b}, e \in EvalExprs}
    \cup {Module(<<Assign(<<Name(s_vars)>>, e)>>) : e \in WrappedDeep}

\* Several statements, not all of them assignments to a name.
StmtValues ==
  {Str(id_a), Str(id_y), Name(id_a), Dict(<< <<Str(id_a), Str(id_y)>> >>),
   Call(id_f, <<Str(id_a)>>)}
Stmts ==
  {Assign(<<Name(t)>>, e) : t \in {s_vars, id_a}, e \in StmtValues}
    \cup {ExprStmt(Str(id_a)), Assign(<<Name(id_a), Name(id_b)>>, Str(id_a))}
Manifests ==
  {Module(b) : b \in SeqsUpTo(Stmts, MaxStmts)}
    \cup {Module(<<Assign(<<Attribute(Name(id_a), id_b)>>, Str(id_a))>>),
          Module(<<Assign(<<>>, Str(id_a))>>),
          Str(id_a), Assign(<<Name(id_a)>>, Str(id_a))}


\* Manifests whose `vars` literal has the name of a constant among its keys,
\* and reads the constants after it: in a later entry, inside an expression of
\* a later entry, and in a later statement.
ConstantReads ==
  {Name(s_None), Name(s_True), Name(s_False),
   List(<<Name(s_True), Name(s_None)>>), UnaryOp("Not", Name(s_False)),
   BoolOp("Or", <<Name(s_None), Name(s_False)>>),
   Dict(<< <<Str(id_k), Name(s_True)>> >>)}
ConstantDicts ==
  {Dict(<< <<Str(c), Str(id_y)>>, <<Str(k), r>> >>) :
     c \in {s_None, s_True, s_False}, k \in {id_b, s_None}, r \in ConstantReads}
ConstantManifests ==
  {Module(<<Assign(<<Name(t)>>, d)>>) : t \in {s_vars, id_b}, d \in ConstantDicts}
    \cup {Module(<<Assign(<<Name(s_vars)>>, d), Assign(<<Name(id_a)>>, Name(c))>>) :
            d \in ConstantDicts, c \in {s_None, s_True, s_False}}

\* The literal expression of a value (an int is a sum of True and False).
RECURSIVE Lit(_)
Lit(x) ==
  CASE x.t = "none" -> Name(s_None)
    [] x.t = "bool" -> Name(IF x.b THEN s_True ELSE s_False)
    [] x.t = "int" ->
         IF x.n = 0 THEN BinOp("Add", Name(s_False), Name(s_False))
         ELSE IF x.n = 1 THEN BinOp("Add", Name(s_True), Name(s_False))
         ELSE BinOp("Add", Name(s_True), Lit(IntV(x.n - 1)))
    [] x.t = "str" -> Str(x.s)
    [] x.t = "list" -> List([i \in 1..Len(x.elts) |-> Lit(x.elts[i])])
    [] x.t = "tuple" -> Tuple([i \in 1..Len(x.elts) |-> Lit(x.elts[i])])
    [] x.t = "dict" ->
         Dict([i \in 1..Len(x.items) |-> <<Lit(x.items[i][1]), Lit(x.items[i][2])>>])

\* The manifest that assigns each key of a scope its value, in the scope's order.
ManifestOf(scope) ==
  Module([i \in 1..Len(scope.items) |->
            Assign(<<Name(scope.items[i][1].s)>>, Lit(scope.items[i][2]))])

v_a == StrV(id_a)
v_y == StrV(id_y)
v_one == IntV(1)
D1(k, x) == DictV(<< <<k, x>> >>)
D2(k, x, l, z) == DictV(<< <<k, x>>, <<l, z>> >>)
SeqVals(S) == UNION {{ListV(e), TupleV(e)} : e \in SeqsUpTo(S, MaxElts)}

\* Values of every shape the schema tells apart, one to three levels deep.
Leaves == {v_a, NoneV, BoolV(TRUE), v_one}
Level1 ==
  Leaves \cup SeqVals({v_a, NoneV, v_one}) \cup {DictV(<<>>)}
    \cup {D1(k, x) : k \in {v_a, StrV(s_url), StrV(s_action), v_one},
                     x \in {v_a, NoneV, BoolV(TRUE), v_one}}
Level1Core ==
  {v_a, v_one, ListV(<<>>), ListV(<<v_a>>), ListV(<<v_a, v_a>>), ListV(<<v_a, v_one>>),
   TupleV(<<v_a>>), TupleV(<<v_a, v_a>>), TupleV(<<v_one>>), DictV(<<>>),
   D1(v_a, v_a), D1(v_a, NoneV), D1(v_a, v_one), D1(v_one, v_a),
   D1(StrV(s_url), v_a), D1(StrV(s_url), v_one), D1(StrV(s_action), v_a)}
Level2 ==
  UNION {{ListV(<<m>>), ListV(<<v_a, m>>), D1(v_a, m), D1(StrV(s_action), m),
          D2(StrV(s_action), m, StrV(s_name), v_a),
          D2(StrV(s_action), ListV(<<v_a>>), StrV(s_name), m),
          D2(StrV(s_action), ListV(<<v_a>>), StrV(s_pattern), m),
          D2(StrV(s_action), ListV(<<v_a>>), m, v_a),
          D2(StrV(s_name), v_a, StrV(s_pattern), m)} : m \in Level1Core}
Hooks ==
  {D1(StrV(s_action), ListV(<<v_a>>)), D1(StrV(s_action), ListV(<<v_one>>)),
   D1(StrV(s_action), v_a), D1(StrV(s_name), v_a), DictV(<<>>),
   D2(StrV(s_action), ListV(<<v_a>>), StrV(s_name), v_a),
   D2(StrV(s_action), ListV(<<v_a>>), StrV(s_name), v_one),
   D2(StrV(s_action), ListV(<<v_a>>), v_a, v_a)}
Level3 ==
  UNION {{ListV(<<h>>), ListV(<<h, v_a>>), D1(v_a, ListV(<<h>>)), D1(v_one, ListV(<<h>>)),
          D1(v_a, TupleV(<<h>>))} : h \in Hooks}
SchemaValues == Level1 \cup Level2 \cup Level3

\* The thirteen keys of _GCLIENT_SCHEMA, and one it does not know.
SchemaKeys ==
  {s_allowed_hosts, s_deps, s_deps_os, s_hooks, s_hooks_os, s_include_rules,
   s_pre_deps_hooks, s_recursedeps, s_skip_child_includes, s_specific_include_rules,
   s_target_os, s_use_relative_paths, s_vars}
SchemaScopes ==
  {DictV(<<>>)}
    \cup {D1(StrV(k), x) : k \in SchemaKeys \cup {id_b}, x \in SchemaValues}
    \cup {D2(StrV(s_deps), x, StrV(k), z) :
            x \in {D1(v_a, v_a), D1(v_a, v_one)},
            k \in {s_vars, s_use_relative_paths, id_b},
            z \in {BoolV(TRUE), v_a, D1(v_a, v_a), D1(v_a, v_one)}}

\* Expected and executed scopes that differ in a key set, a kind, a length,
\* an element or a scalar, at several depths.
CheckValues ==
  {v_a, v_y, BoolV(TRUE), NoneV,
   ListV(<<>>), ListV(<<v_a>>), ListV(<<v_y>>), ListV(<<v_a, v_y>>),
   TupleV(<<v_a>>), TupleV(<<v_a, v_y>>),
   ListV(<<ListV(<<v_a, v_y>>)>>), ListV(<<TupleV(<<v_a, v_y>>)>>), ListV(<<v_a, ListV(<<v_y>>)>>),
   DictV(<<>>), D1(v_a, v_a), D1(v_a, v_y), D1(v_y, v_a), D1(v_a, D1(StrV(s_url), v_a)),
   D1(v_a, D1(StrV(s_url), v_y)), D2(v_a, v_a, v_y, v_y), D2(v_y, v_a, v_a, v_a)}
CheckScopes ==
  {DictV(<<>>)}
    \cup {D1(StrV(k), x) : k \in {s_deps, s_recursedeps}, x \in CheckValues}
    \cup {D2(StrV(s_deps), x, StrV(s_vars), z) : x \in {D1(v_a, v_a), D1(v_a, v_y)},
                                               z \in {D1(v_a, v_a), D1(v_a, BoolV(TRUE)), v_a}}
    \cup {D2(StrV(s_vars), z, StrV(s_deps), x) : x \in {D1(v_a, v_a), D1(v_a, v_y)},
                                               z \in {D1(v_a, v_a), v_a}}

\* What Check is given: a manifest of the evaluator's families and nothing
\* expected of it, a manifest expected to produce the scope it is written
\* from, or the manifest of one scope and another scope expected.
Inputs(c, e) ==
  \/ e = DictV(<<>>) /\ (c \in OneStatement \/ c \in Manifests \/ c \in ConstantManifests)
  \/ \E x \in SchemaScopes : c = ManifestOf(x) /\ e = x
  \/ \E x \in CheckScopes : c = ManifestOf(x) /\ e \in CheckScopes

\* ------------------------------------------------------------ split_cl.py

\* A path is a string: a sequence of characters, "/" between its components.
\* An AffectedFile is its LocalPath() and the lines its Changes() add and delete.
File(path, size) == [path |-> path, size |-> size]

CL_SPLIT_FORCE_LIMIT == 10

\* GetFilesSplitByOwners's cl_size when the caller gives none.
DefaultClSize == 500

NoReturn == -1

\* os.path.dirname(p).
dirname(p) ==
  LET slashes == {k \in 1..Len(p) : p[k] = "/"}
      i == IF slashes = {} THEN 0 ELSE CHOOSE k \in slashes : \A j \in slashes : j <= k
      kept == {k \in 1..i : p[k] # "/"}
      end == IF kept = {} THEN i ELSE CHOOSE k \in kept : \A j \in kept : j <= k IN
  SubSeq(p, 1, end)

Uppercase == <<"A", "B", "C", "D", "E", "F", "G", "H", "I", "J", "K", "L", "M",
               "N", "O", "P", "Q", "R", "S", "T", "U", "V", "W", "X", "Y", "Z">>
Lowercase == <<"a", "b", "c", "d", "e", "f", "g", "h", "i", "j", "k", "l", "m",
               "n", "o", "p", "q", "r", "s", "t", "u", "v", "w", "x", "y", "z">>

\* str.lower().
lower(s) ==
  [i \in 1..Len(s) |->
     IF \E k \in 1..26 : Uppercase[k] = s[i]
     THEN Lowercase[CHOOSE k \in 1..26 : Uppercase[k] = s[i]]
     ELSE s[i]]

\* The trie of the candidates is a function from its keys.  trie[key] = value:
TrieSet(trie, key, v) == [k \in DOMAIN trie \cup {key} |-> IF k = key THEN v ELSE trie[k]]

\* del trie[key].
TrieDel(trie, key) == [k \in DOMAIN trie \ {key} |-> trie[k]]

\* trie.keys(prefix): the keys that start with the characters of |prefix|.
TrieKeys(trie, prefix) ==
  {k \in DOMAIN trie : Len(k) >= Len(prefix) /\ SubSeq(k, 1, Len(prefix)) = prefix}

\* The keys trie.items() can give next when |rest| are still to come: a key
\* comes after every key it starts with; keys apart from that come in the
\* order of the trie's children, which is the order of a dict.
TrieNext(rest) ==
  {k \in rest : \A q \in rest : q = k \/ ~(Len(q) < Len(k) /\ SubSeq(k, 1, Len(q)) = q)}

\* owners.Database.all_possible_owners(paths, author).keys(): the owners listed
\* for a path or for a directory above it.
RECURSIVE owners_above(_, _)
owners_above(db, p) ==
  (IF p \in DOMAIN db THEN db[p] ELSE {})
    \cup (IF dirname(p) = p THEN {} ELSE owners_above(db, dirname(p)))

all_possible_owners(db, paths) == UNION {owners_above(db, p) : p \in paths}

\* ClCandidate.__init__; the model's {} for _owners is None or an empty set,
\* which _EnsureOwners treats alike.
ClCandidate(path, owners_db, fs, owners) ==
  [path |-> path, files |-> fs, owners |-> owners]

\* ClCandidate.AddFiles.
AddFiles(c, fs) == [c EXCEPT !.owners = {}, !.files = c.files \cup fs]

RECURSIVE SumOfSizes(_)
SumOfSizes(fs) ==
  IF fs = {} THEN 0 ELSE LET f == CHOOSE x \in fs : TRUE IN f.size + SumOfSizes(fs \ {f})

\* ClCandidate.GetChangeSize.
GetChangeSize(c) == SumOfSizes(c.files)

\* ClCandidate._EnsureOwners: the candidate afterwards.
EnsureOwners(c, db) ==
  IF c.owners = {}
  THEN [c EXCEPT !.owners = all_possible_owners(db, {f.path : f \in c.files})]
  ELSE c

\* ClCandidate.HaveCommonOwners, of two candidates whose owners are ensured.
HaveCommonOwners(c, other) == c.owners \cap other.owners # {}

\* An empty trie, an empty map.
Empty == [k \in {} |-> {}]

\* The candidates in an order of their own, as a list.
RECURSIVE AsList(_, _)
AsList(trie, rest) ==
  IF rest = {} THEN <<>>
  ELSE LET k == CHOOSE x \in TrieNext(rest) : TRUE IN <<trie[k]>> \o AsList(trie, rest \ {k})

\* files_split_by_owners[cl.GetPath()] = cl.GetFiles(), for each cl of the list in turn.
RECURSIVE MapOf(_)
MapOf(cls) ==
  IF cls = <<>> THEN Empty
  ELSE LET cl == cls[Len(cls)] IN TrieSet(MapOf(SubSeq(cls, 1, Len(cls) - 1)), cl.path, cl.files)

\* SplitCl up to its call of GetFilesSplitByOwners: an empty CL is not split.
SplitClStart ==
  /\ entry = "SplitCl" /\ at = "start"
  /\ IF files = {}
     THEN at' = "done" /\ returned' = 1
     ELSE at' = "split" /\ returned' = returned
  /\ UNCHANGED <<eval_vars, entry, files, owners_database, cl_size, cq_dry_run, dry_run,
                 answer, candidates, items, edited, change_lists, files_split_by_owners,
                 prompted, existing_branches, branches, uploaded, printed>>

\* GetFilesSplitByOwners: one candidate for each file.
MakeCandidates ==
  /\ at = "split"
  /\ candidates' = [p \in {f.path : f \in files} |->
                      ClCandidate(p, owners_database, {f \in files : f.path = p}, {})]
  /\ change_lists' = <<>>
  /\ edited' = TRUE
  /\ at' = "while"
  /\ UNCHANGED <<eval_vars, entry, files, owners_database, cl_size, cq_dry_run, dry_run,
                 answer, items, files_split_by_owners, prompted, existing_branches,
                 branches, uploaded, printed, returned>>

\* while edited: the next pass over candidates.items(), a list made now.
WhileEdited ==
  /\ at = "while" /\ edited
  /\ edited' = FALSE
  /\ items' = DOMAIN candidates
  /\ at' = "for"
  /\ UNCHANGED <<eval_vars, entry, files, owners_database, cl_size, cq_dry_run, dry_run,
                 answer, candidates, change_lists, files_split_by_owners, prompted,
                 existing_branches, branches, uploaded, printed, returned>>

\* The parent candidate once |candidate| is merged into it, and whether that
\* makes it a change list.
merged(parent_cl, candidate) == AddFiles(parent_cl, candidate.files)

full(parent_cl, candidate, size) ==
  GetChangeSize(parent_cl) + GetChangeSize(candidate) >= size

\* One turn of the for loop over the items of the pass.
ForCandidate ==
  /\ at = "for" /\ items # {}
  /\ \E path \in TrieNext(items) :
       LET sub_cls == Cardinality(TrieKeys(candidates, path)) - 1
           parent_path == dirname(path)
           made == IF parent_path \in DOMAIN candidates THEN candidates
                   ELSE TrieSet(candidates, parent_path,
                                ClCandidate(parent_path, owners_database, {},
                                            all_possible_owners(owners_database,
                                                                {parent_path})))
           parent_cl == EnsureOwners(made[parent_path], owners_database)
           candidate == EnsureOwners(candidates[path], owners_database)
           ensured == TrieSet(TrieSet(made, parent_path, parent_cl), path, candidate)
           added == merged(parent_cl, candidate) IN
         /\ items' = items \ {path}
         /\ IF sub_cls # 0 \/ Len(parent_path) = 0
            THEN UNCHANGED <<candidates, edited, change_lists>>
            ELSE IF ~HaveCommonOwners(parent_cl, candidate)
            THEN candidates' = ensured /\ UNCHANGED <<edited, change_lists>>
            ELSE /\ edited' = TRUE
                 /\ IF full(added, candidate, cl_size)
                    THEN /\ candidates' = TrieDel(TrieDel(ensured, path), parent_path)
                         /\ change_lists' = Append(change_lists, added)
                    ELSE /\ candidates' = TrieSet(TrieDel(ensured, path), parent_path, added)
                         /\ change_lists' = change_lists
  /\ UNCHANGED <<eval_vars, entry, files, owners_database, cl_size, cq_dry_run, dry_run,
                 answer, at, files_split_by_owners, prompted, existing_branches, branches,
                 uploaded, printed, returned>>

\* The pass is over.
ForEnd ==
  /\ at = "for" /\ items = {}
  /\ at' = "while"
  /\ UNCHANGED <<eval_vars, entry, files, owners_database, cl_size, cq_dry_run, dry_run,
                 answer, candidates, items, edited, change_lists, files_split_by_owners,
                 prompted, existing_branches, branches, uploaded, printed, returned>>

\* After the merge loop: the candidates left join the change lists, and the
\* map is filled from the change lists and returned.
ReturnMap ==
  /\ at = "while" /\ ~edited
  /\ change_lists' = change_lists \o AsList(candidates, DOMAIN candidates)
  /\ files_split_by_owners' = MapOf(change_lists')
  /\ at' = IF entry = "SplitCl" THEN "num_cls" ELSE "done"
  /\ UNCHANGED <<eval_vars, entry, files, owners_database, cl_size, cq_dry_run, dry_run,
                 answer, candidates, items, edited, prompted, existing_branches, branches,
                 uploaded, printed, returned>>

\* Whether SplitCl asks the user before it goes on.
asks(dry, n) == dry /\ n > CL_SPLIT_FORCE_LIMIT

\* SplitCl after GetFilesSplitByOwners: num_cls, and the question to the user.
Proceed ==
  /\ at = "num_cls"
  /\ LET num_cls == Cardinality(DOMAIN files_split_by_owners) IN
       /\ prompted' = asks(cq_dry_run, num_cls)
       /\ IF asks(cq_dry_run, num_cls) /\ lower(answer) # <<"y">>
          THEN at' = "done" /\ returned' = 0 /\ items' = items
          ELSE at' = "upload" /\ returned' = returned
               /\ items' = DOMAIN files_split_by_owners
  /\ UNCHANGED <<eval_vars, entry, files, owners_database, cl_size, cq_dry_run, dry_run,
                 answer, candidates, edited, change_lists, files_split_by_owners,
                 existing_branches, branches, uploaded, printed>>

\* One turn of the loop over files_split_by_owners.iteritems(), in the order
\* of the dict: PrintClInfo, or UploadCl with its CreateBranchForDirectory.
ForDirectory ==
  /\ at = "upload" /\ items # {}
  /\ \E directory \in items :
       /\ items' = items \ {directory}
       /\ IF dry_run
          THEN printed' = printed \cup {directory} /\ UNCHANGED <<branches, uploaded>>
          ELSE IF directory \in existing_branches \cup branches
          THEN UNCHANGED <<branches, uploaded, printed>>
          ELSE /\ branches' = branches \cup {directory}
               /\ uploaded' = uploaded \cup {directory}
               /\ printed' = printed
  /\ UNCHANGED <<eval_vars, entry, files, owners_database, cl_size, cq_dry_run, dry_run,
                 answer, at, candidates, edited, change_lists, files_split_by_owners,
                 prompted, existing_branches, returned>>

\* git checkout of the original branch, and SplitCl returns 0.
Checkout ==
  /\ at = "upload" /\ items = {}
  /\ at' = "done"
  /\ returned' = 0
  /\ UNCHANGED <<eval_vars, entry, files, owners_database, cl_size, cq_dry_run, dry_run,
                 answer, candidates, items, edited, change_lists, files_split_by_owners,
                 prompted, existing_branches, branches, uploaded, printed>>

\* ------------------------------------------------------------ inputs of split_cl.py

\* The most files at the top of the repository in a change given to SplitCl.
MaxCls == 11
\* The largest cl_size of a call of GetFilesSplitByOwners.
MaxClSize == 4

\* Paths of files: at the top, in d/, in d/e/ and in e/.
p_a == <<"a">>
p_d_a == <<"d", "/", "a">>
p_d_ab == <<"d", "/", "a", "b">>
p_d_b == <<"d", "/", "b">>
p_d_e_a == <<"d", "/", "e", "/", "a">>
p_e_a == <<"e", "/", "a">>

\* The directories that can hold an OWNERS file, the top one being "".
p_top == <<>>
p_d == <<"d">>
p_d_e == <<"d", "/", "e">>
p_e == <<"e">>

SomeFiles ==
  {File(p_a, 1), File(p_d_a, 1), File(p_d_ab, 1), File(p_d_b, 2), File(p_d_e_a, 1),
   File(p_e_a, 1)}

\* n files at the top of the repository, named 1, 2, ...
TopFiles(n) == {File(IntToStr(i), 1) : i \in 1..n}

\* Two files of one directory: small ones, and two of half the default cl_size.
InDirectory ==
  {{File(p_d_a, 1), File(p_d_b, 2)},
   {File(p_d_a, DefaultClSize \div 2), File(p_d_b, DefaultClSize \div 2)}}

Owners(top, d, d_e, e) == (p_top :> top) @@ (p_d :> d) @@ (p_d_e :> d_e) @@ (p_e :> e)

OwnersDatabases ==
  {Owners({"o1"}, {}, {}, {}), Owners({}, {"o1"}, {"o2"}, {"o2"}),
   Owners({}, {"o1"}, {}, {"o1"}), Owners({}, {}, {}, {})}

Answers == {<<"y">>, <<"Y">>, <<"n">>}

\* No Check runs.
EvalIdle ==
  /\ content = Module(<<>>)
  /\ global_scope = Table
  /\ expected_scope = DictV(<<>>)
  /\ pc = "done"
  /\ idx = 1
  /\ result_scope = <<>>
  /\ value = NoValue
  /\ calls = <<>>
  /\ failure = NoExc

\* What a run of split_cl.py starts from, its inputs apart.
SplitFresh ==
  /\ candidates = Empty
  /\ items = {}
  /\ edited = FALSE
  /\ change_lists = <<>>
  /\ files_split_by_owners = Empty
  /\ prompted = FALSE
  /\ branches = {}
  /\ uploaded = {}
  /\ printed = {}
  /\ returned = NoReturn

\* No run of split_cl.py.
SplitIdle ==
  /\ entry = "" /\ at = "done"
  /\ files = {} /\ owners_database = Owners({}, {}, {}, {}) /\ cl_size = DefaultClSize
  /\ cq_dry_run = FALSE /\ dry_run = FALSE /\ answer = <<>> /\ existing_branches = {}
  /\ SplitFresh

\* A call of GetFilesSplitByOwners with a cl_size, or a run of SplitCl.
SplitInputs ==
  \/ /\ entry = "GetFilesSplitByOwners" /\ at = "split"
     /\ files \in SUBSET SomeFiles
     /\ owners_database \in OwnersDatabases
     /\ cl_size \in 1..MaxClSize
     /\ cq_dry_run = FALSE /\ dry_run = FALSE /\ answer = <<>> /\ existing_branches = {}
  \/ /\ entry = "SplitCl" /\ at = "start"
     /\ \E n \in 0..MaxCls :
          files \in {TopFiles(n)} \cup (IF n <= 2 THEN {TopFiles(n) \cup fs : fs \in InDirectory}
                                                   ELSE {})
     /\ owners_database = Owners({"o1"}, {}, {}, {})
     /\ cl_size = DefaultClSize
     /\ cq_dry_run \in BOOLEAN /\ dry_run \in BOOLEAN /\ answer \in Answers
     /\ existing_branches \in {{}, {IntToStr(1)}}

\* ------------------------------------------------------------ specification

Init ==
  /\ Inputs(content, expected_scope)
  /\ global_scope = Table
  /\ pc = "exec"
  /\ idx = 1
  /\ result_scope = <<>>
  /\ value = NoValue
  /\ calls = <<>>
  /\ failure = NoExc
  /\ SplitIdle

Next == ExecNotModule \/ VisitInModule \/ ExecReturn \/ Compare \/ Validate

Spec == Init /\ [][Next]_vars

\* A run of split_cl.py.
SplitInit == EvalIdle /\ SplitInputs /\ SplitFresh

SplitNext ==
  \/ SplitClStart \/ MakeCandidates \/ WhileEdited \/ ForCandidate \/ ForEnd
  \/ ReturnMap \/ Proceed \/ ForDirectory \/ Checkout

SplitSpec == SplitInit /\ [][SplitNext]_vars

\* ------------------------------------------------------------ properties

\* Every text the runs need is computed: no failure stands for a format or a
\* repr that the operators above leave out.
AllTextComputed == failure.exc # "Unmodelled" /\ (value.ok \/ value.val.exc # "Unmodelled")

\* The statements of the manifest, and the assignments to one name among them.
Body == IF content.ast = "Module" THEN content.body ELSE <<>>
IsAssignment(i) ==
  /\ Body[i].ast = "Assign"
  /\ Len(Body[i].targets) = 1
  /\ Body[i].targets[1].ast = "Name"
TargetOf(i) == Body[i].targets[1].id
EvalOf(i) == gclient_eval(Body[i].value, global_scope, TargetOf(i) = s_vars)
Reassigns(j) ==
  /\ IsAssignment(j)
  /\ \E i \in 1..(j - 1) : IsAssignment(i) /\ TargetOf(i) = TargetOf(j)
FirstAssignment(id) ==
  CHOOSE i \in 1..Len(Body) :
    /\ IsAssignment(i) /\ TargetOf(i) = id
    /\ \A h \in 1..(i - 1) : ~(IsAssignment(h) /\ TargetOf(h) = id)

\* The statement _visit_in_module was last given, once it has evaluated it.
Last == IF failure # NoExc /\ pc = "exec" THEN idx ELSE idx - 1
Evaluated == Last \in 1..Len(Body) /\ value # NoValue
LastNode == Body[Last].value
LastExposes == TargetOf(Last) = s_vars

\* C1: a second assignment to an identifier already assigned makes execution
\* fail: the loop never gets past it and no scope is returned, the failure at
\* a reassignment whose value evaluates is the one that names the identifier,
\* and every binding of the scope is the value of the first assignment to its
\* name, never a later one.
C1_DuplicateAssignmentRejected ==
  /\ \A j \in 1..Len(Body) :
       Reassigns(j) =>
         /\ idx <= j
         /\ pc = "exec"
         /\ (idx = j /\ failure # NoExc /\ EvalOf(j).ok
               => failure = Exc("ValueError", "invalid assignment: overrides var", TargetOf(j)))
  /\ \A n \in 1..Len(result_scope) :
       LET id == result_scope[n][1].s IN
         /\ \E i \in 1..Len(Body) : IsAssignment(i) /\ TargetOf(i) = id
         /\ result_scope[n][2] = EvalOf(FirstAssignment(id)).val

\* A manifest assigns one name two different values, and the second assignment
\* has been refused.
C1_Witness ==
  /\ failure.exc = "ValueError" /\ failure.msg = "invalid assignment: overrides var"
  /\ Reassigns(idx)
  /\ EvalOf(idx).ok
  /\ EvalOf(idx).val # EvalOf(FirstAssignment(TargetOf(idx))).val
  /\ DictGet(result_scope, StrV(TargetOf(idx))) = EvalOf(FirstAssignment(TargetOf(idx))).val

\* A dict literal of string keys whose values are strings, names, or a name
\* plus a string: the literals whose entries read one another by name.
ReadsNames(d) ==
  /\ d.ast = "Dict"
  /\ \A i \in 1..Len(d.keys) :
       /\ d.keys[i].ast = "Str"
       /\ \/ d.values[i].ast \in {"Str", "Name"}
          \/ /\ d.values[i].ast = "BinOp" /\ d.values[i].op = "Add"
             /\ d.values[i].left.ast = "Name" /\ d.values[i].right.ast = "Str"

ConstantNames == {s_None, s_True, s_False}
ConstantOf(n) == IF n = s_None THEN NoneV ELSE BoolV(n = s_True)

\* What entry i of the literal d is to evaluate to.  A name is read from the
\* latest earlier entry of that key when the literal is exposed, and as a
\* constant; keysFirst says which of the two a name that is both gives.
RECURSIVE EntryValue(_, _, _, _)
NameValue(d, i, n, exposed, keysFirst) ==
  LET earlier == {j \in 1..(i - 1) : d.keys[j].s = n}
      latest == CHOOSE j \in earlier : \A h \in earlier : h <= j
      asKey == exposed /\ earlier # {} IN
  IF asKey /\ (keysFirst \/ n \notin ConstantNames)
  THEN EntryValue(d, latest, exposed, keysFirst)
  ELSE IF n \in ConstantNames THEN Val(ConstantOf(n))
  ELSE [ok |-> FALSE, val |-> Exc("ValueError", "invalid name", n)]
EntryValue(d, i, exposed, keysFirst) ==
  LET v == d.values[i] IN
  CASE v.ast = "Str" -> Val(StrV(v.s))
    [] v.ast = "Name" -> NameValue(d, i, v.id, exposed, keysFirst)
    [] OTHER ->
         LET l == NameValue(d, i, v.left.id, exposed, keysFirst) IN
         IF l.ok THEN PyAdd(l.val, StrV(v.right.s)) ELSE l

\* The evaluation agrees with EntryValue: it succeeds when every entry does
\* and binds each key to its latest entry's value, and otherwise fails as the
\* first entry that fails.
EntriesAgree(d, exposed, keysFirst) ==
  LET failing == {i \in 1..Len(d.keys) : ~EntryValue(d, i, exposed, keysFirst).ok} IN
  IF failing = {}
  THEN /\ value.ok
       /\ value.val.t = "dict"
       /\ \A i \in 1..Len(d.keys) :
            (\A j \in (i + 1)..Len(d.keys) : d.keys[j].s # d.keys[i].s)
              => DictGet(value.val.items, StrV(d.keys[i].s))
                   = EntryValue(d, i, exposed, keysFirst).val
  ELSE /\ ~value.ok
       /\ value.val = EntryValue(d, CHOOSE i \in failing : \A h \in failing : i <= h,
                                 exposed, keysFirst).val

\* C2: in a dict literal assigned to `vars`, an entry's value reads by name
\* the keys of the entries before it, other than None, True and False, and
\* gets the value of the latest entry of that key; those three names give the
\* constants whatever the keys are; in a literal assigned to any other name
\* the same read fails with the missing-name error.
C2_SelfReferenceOnlyForVars ==
  Evaluated /\ ReadsNames(LastNode) => EntriesAgree(LastNode, LastExposes, FALSE)

\* C2 as the specification states it: a name that is a key of an earlier
\* entry of the `vars` literal gives that entry's value, whatever the name.
C2_AnyEarlierKeyIsRead ==
  Evaluated /\ ReadsNames(LastNode) => EntriesAgree(LastNode, LastExposes, TRUE)

\* A literal assigned to `vars` whose second entry read the first entry's key
\* has been evaluated, and the entry has the first one's value.
C2_Witness ==
  /\ Evaluated /\ LastExposes /\ ReadsNames(LastNode)
  /\ Len(LastNode.keys) = 2
  /\ LastNode.values[2].ast = "Name"
  /\ LastNode.values[2].id = LastNode.keys[1].s
  /\ LastNode.values[2].id \notin ConstantNames
  /\ LastNode.keys[2].s # LastNode.keys[1].s
  /\ value.ok
  /\ DictGet(value.val.items, StrV(LastNode.keys[2].s))
       = DictGet(value.val.items, StrV(LastNode.keys[1].s))

\* The node kinds the evaluator has a branch for.
Supported(node) ==
  \/ node.ast \in {"Str", "Tuple", "List", "Dict", "Name", "Call"}
  \/ node.ast = "BinOp" /\ node.op \in {"Add", "Mod"}
  \/ node.ast = "BoolOp" /\ node.op \in {"Or", "And"} /\ Len(node.values) = 2
  \/ node.ast = "UnaryOp" /\ node.op = "Not"

Range(f) == {f[i] : i \in DOMAIN f}

\* The nodes directly under a node; with leftOnly, of a two-operand or/and
\* only the left operand.
Children(node, leftOnly) ==
  CASE node.ast \in {"Tuple", "List"} -> Range(node.elts)
    [] node.ast = "Dict" -> Range(node.keys) \cup Range(node.values)
    [] node.ast = "Call" ->
         ({node.func} \cup Range(node.args) \cup {k.value : k \in Range(node.keywords)}
            \cup {node.starargs, node.kwargs}) \ {NoNode}
    [] node.ast = "BinOp" -> {node.left, node.right}
    [] node.ast = "BoolOp" ->
         IF leftOnly /\ Supported(node) THEN {node.values[1]} ELSE Range(node.values)
    [] node.ast = "UnaryOp" -> {node.operand}
    [] node.ast = "Lambda" -> {node.body}
    [] node.ast = "Subscript" -> {node.value, node.slice}
    [] node.ast = "Attribute" -> {node.value}
    [] OTHER -> {}

\* The tree has a node of an unsupported kind; with leftOnly, it has one that
\* is not inside the right operand of an or/and.
RECURSIVE HasUnsupported(_, _)
HasUnsupported(node, leftOnly) ==
  \/ ~Supported(node)
  \/ \E c \in Children(node, leftOnly) : HasUnsupported(c, leftOnly)

\* Execution does not get past statement i, and binds nothing for it.
StopsAt(i) == idx <= i /\ pc = "exec" /\ Len(result_scope) < i

Exhaustive(leftOnly) ==
  /\ content.ast # "Module" => pc = "exec" /\ result_scope = <<>>
  /\ \A i \in 1..Len(Body) :
       /\ ~IsAssignment(i) => StopsAt(i)
       /\ Body[i].ast = "Assign" /\ HasUnsupported(Body[i].value, leftOnly) => StopsAt(i)

Operand(node) == gclient_eval(node, global_scope, LastExposes)
Same(r) == value.ok = r.ok /\ value.val = r.val

\* C4: a boolean or/and with a number of operands other than two fails without
\* evaluating any operand.  With two, a failing left operand is the failure;
\* a left operand that decides (truthy for or, falsy for and) is the result
\* and the right operand is not evaluated, so that it makes no call and cannot
\* fail; otherwise the outcome is the right operand's, after both evaluations.
C4_BoolOpTwoOperandsShortCircuit ==
  Evaluated /\ LastNode.ast = "BoolOp" /\ LastNode.op \in {"Or", "And"} =>
    IF Len(LastNode.values) # 2
    THEN /\ ~value.ok
         /\ value.val = Exc("ValueError", "exactly 2 operands required", <<>>)
         /\ value.calls = <<>>
    ELSE LET left == Operand(LastNode.values[1])
             right == Operand(LastNode.values[2]) IN
         IF ~left.ok \/ (LastNode.op = "Or") = Truthy(left.val)
         THEN Same(left) /\ value.calls = left.calls
         ELSE Same(right) /\ value.calls = left.calls \o right.calls

\* An or whose left operand is truthy and whose right operand fails on its
\* own has evaluated to the left operand.
C4_Witness ==
  /\ Evaluated /\ LastNode.ast = "BoolOp" /\ LastNode.op = "Or"
  /\ Len(LastNode.values) = 2
  /\ Operand(LastNode.values[1]).ok /\ Truthy(Operand(LastNode.values[1]).val)
  /\ ~Operand(LastNode.values[2]).ok
  /\ value.ok /\ value.val = Operand(LastNode.values[1]).val
  /\ failure = NoExc

actual_scope == DictV(result_scope)
Compared == pc \in {"validate", "done"} \/ (pc = "compare" /\ failure # NoExc)

Scalar(x) == x.t \in {"none", "bool", "int", "str"}
KeyText(k) == <<"[", "\"">> \o k.s \o <<"\"", "]">>
IndexText(i) == <<"[">> \o IntToStr(i) \o <<"]">>

\* The places of two scopes, by the text of their path, where the expected
\* one holds something other than a dict or a list and the actual one holds
\* something unequal; a path subscripts the actual scope as Python does.
RECURSIVE Mismatches(_, _, _)
Mismatches(e, a, path) ==
  IF e.t = "dict"
  THEN IF a.t # "dict" THEN {}
       ELSE UNION {Mismatches(e.items[i][2], DictGet(a.items, e.items[i][1]),
                              path \o KeyText(e.items[i][1])) :
                     i \in {h \in 1..Len(e.items) : DictHas(a.items, e.items[h][1])}}
  ELSE IF e.t = "list"
  THEN IF a.t \notin {"list", "tuple", "str"} THEN {}
       ELSE UNION {Mismatches(e.elts[i], Subscript0(a, i - 1).val, path \o IndexText(i - 1)) :
                     i \in {h \in 1..Len(e.elts) : h <= PyLen(a)}}
  ELSE IF PyEq(e, a) THEN {} ELSE {[path |-> path, exp |-> e, act |-> a]}

\* The two scopes have the same dicts, lists and lengths, and differ in
\* scalars at most.
RECURSIVE SameShape(_, _)
SameShape(e, a) ==
  IF e.t = "dict"
  THEN /\ a.t = "dict"
       /\ PyEq(SetV(DictKeys(e.items)), SetV(DictKeys(a.items)))
       /\ \A i \in 1..Len(e.items) :
            SameShape(e.items[i][2], DictGet(a.items, e.items[i][1]))
  ELSE IF e.t = "list"
  THEN /\ a.t = "list" /\ Len(a.elts) = Len(e.elts)
       /\ \A i \in 1..Len(e.elts) : SameShape(e.elts[i], a.elts[i])
  ELSE (Scalar(e) /\ Scalar(a)) \/ PyEq(e, a)

\* A CheckFailure of an unequal pair: not of two key sets, not of two lengths.
OfUnequalValues(f) ==
  /\ f.exc = "CheckFailure"
  /\ f.exp.t # "set"
  /\ (f.arg = <<>> \/ f.arg[1] # "l")

\* Check reports a pair of unequal scalars when that is all the scopes differ
\* in, and what it reports as an unequal pair is one; whole says whether the
\* failure holds the two scopes or the two values.
ReportsMismatch(whole) ==
  LET found == Mismatches(expected_scope, actual_scope, <<>>)
      Reported(m) ==
        /\ failure.arg = m.path
        /\ failure.exp = IF whole THEN expected_scope ELSE m.exp
        /\ failure.act = IF whole THEN actual_scope ELSE m.act IN
  /\ Compared /\ SameShape(expected_scope, actual_scope) /\ found # {} =>
       /\ failure.exc = "CheckFailure"
       /\ \E m \in found : Scalar(m.exp) /\ Scalar(m.act) /\ Reported(m)
  /\ pc = "compare" /\ OfUnequalValues(failure) =>
       \E m \in found : Reported(m)

\* C6: when Check finds two unequal scalar values at a path p of the expected
\* and the executed scope, it raises a CheckFailure whose path is p, whose
\* expected field is the whole expected scope and whose actual field is the
\* whole executed scope.
C6_ScalarMismatchReported == ReportsMismatch(TRUE)

\* C6 as the specification states it: the expected and actual fields are the
\* two scalars at p.
C6_FailureHoldsTheScalars == ReportsMismatch(FALSE)

\* deps["a"] was expected to be one string and is another, and Check has
\* failed with that path.
C6_Witness ==
  /\ pc = "compare"
  /\ expected_scope = D1(StrV(s_deps), D1(v_a, v_a))
  /\ actual_scope = D1(StrV(s_deps), D1(v_a, v_y))
  /\ failure.exc = "CheckFailure"
  /\ failure.arg = <<"[", "\"", "d", "e", "p", "s", "\"", "]", "[", "\"", "a", "\"", "]">>
  /\ failure.exp = expected_scope
  /\ failure.act = actual_scope

\* C7: for a manifest that executes, Check fails with a CheckFailure whenever
\* the executed scope differs from the expected one (in a key set, a sequence
\* kind or length, an element or a scalar), and returns normally only when
\* the two are equal.
C7_CheckDetectsEveryDifference ==
  /\ Compared /\ ~PyEq(expected_scope, actual_scope) =>
       pc = "compare" /\ failure.exc = "CheckFailure"
  /\ pc = "done" => PyEq(expected_scope, actual_scope)

\* Check has returned normally although recursedeps was expected to hold a
\* list and holds a tuple.
C7_Witness ==
  /\ pc = "done" /\ failure = NoExc
  /\ expected_scope = D1(StrV(s_recursedeps), ListV(<<ListV(<<v_a, v_y>>)>>))
  /\ actual_scope = D1(StrV(s_recursedeps), ListV(<<TupleV(<<v_a, v_y>>)>>))

\* The shapes the manifest's keys are declared with.
IsStr(x) == x.t = "str"
StrOrNone(x) == x.t \in {"str", "none"}
StrOrBool(x) == x.t \in {"str", "bool"}
AllElts(x, P(_)) == \A i \in 1..Len(x.elts) : P(x.elts[i])
StringList(x) == x.t = "list" /\ AllElts(x, IsStr)
StrKeyed(x, V(_)) ==
  x.t = "dict" /\ \A i \in 1..Len(x.items) : IsStr(x.items[i][1]) /\ V(x.items[i][2])
UrlDict(x) ==
  /\ x.t = "dict" /\ Len(x.items) = 1
  /\ x.items[1][1] = StrV(s_url) /\ IsStr(x.items[1][2])
StrOrUrlDict(x) == IsStr(x) \/ UrlDict(x)
StrOrNoneDict(x) == StrKeyed(x, StrOrNone)
Hook(h) ==
  /\ h.t = "dict"
  /\ \E i \in 1..Len(h.items) : h.items[i][1] = StrV(s_action)
  /\ \A i \in 1..Len(h.items) :
       \/ h.items[i][1] = StrV(s_action) /\ StringList(h.items[i][2])
       \/ h.items[i][1] \in {StrV(s_name), StrV(s_pattern)} /\ IsStr(h.items[i][2])
HookList(x) == x.t = "list" /\ AllElts(x, Hook)
RecurseEntry(x) == IsStr(x) \/ (x.t \in {"tuple", "list"} /\ AllElts(x, IsStr))

DeclaredShape(k, x) ==
  CASE k \in {s_allowed_hosts, s_include_rules, s_skip_child_includes, s_target_os} ->
         StringList(x)
    [] k = s_deps -> StrKeyed(x, StrOrUrlDict)
    [] k = s_deps_os -> StrKeyed(x, StrOrNoneDict)
    [] k \in {s_hooks, s_pre_deps_hooks} -> HookList(x)
    [] k = s_hooks_os -> StrKeyed(x, HookList)
    [] k = s_recursedeps -> x.t = "list" /\ AllElts(x, RecurseEntry)
    [] k = s_specific_include_rules -> StrKeyed(x, StringList)
    [] k = s_use_relative_paths -> x.t = "bool"
    [] k = s_vars -> StrKeyed(x, StrOrBool)
    [] OTHER -> FALSE

WellFormed(scope) ==
  \A i \in 1..Len(scope.items) :
    /\ IsStr(scope.items[i][1])
    /\ scope.items[i][1].s \in SchemaKeys
    /\ DeclaredShape(scope.items[i][1].s, scope.items[i][2])

Validated == pc = "done" \/ (pc = "validate" /\ failure # NoExc)

RECURSIVE LiteralKeys(_)
LiteralKeys(node) ==
  /\ node.ast = "Dict" => \A i \in 1..Len(node.keys) : node.keys[i].ast = "Str"
  /\ \A c \in Children(node, FALSE) : LiteralKeys(c)

KeysOf(d) == {d.keys[i].s : i \in 1..Len(d.keys)}

\* Every name the evaluation of the tree reads is in `names`, or is a key of
\* an earlier pair of the exposed dict literal the read is inside of.  (The
\* callee of a call is not read as a name, and the right operand of an or/and
\* need not be read at all.)
RECURSIVE WellScoped(_, _, _)
WellScoped(node, names, exposed) ==
  CASE node.ast = "Name" -> node.id \in names
    [] node.ast = "Dict" ->
         \A i \in 1..Len(node.keys) :
           LET seen == IF exposed THEN names \cup {node.keys[j].s : j \in 1..(i - 1)}
                       ELSE names IN
           WellScoped(node.keys[i], seen, exposed) /\ WellScoped(node.values[i], seen, exposed)
    [] node.ast = "Call" ->
         \A i \in 1..Len(node.args) : WellScoped(node.args[i], names, exposed)
    [] OTHER -> \A c \in Children(node, TRUE) : WellScoped(c, names, exposed)

\* The names a node reads right after a dict literal that has them as keys:
\* as the next element of the list or tuple the literal is in, or as the value
\* of the next pair of the dict the literal is a value of.
ReadAfterLiteral(node) ==
  LET After(d, r) ==
        IF d.ast = "Dict" /\ LiteralKeys(d) /\ r.ast = "Name" /\ Operand(d).ok
        THEN {r.id} \cap (KeysOf(d) \ ConstantNames)
        ELSE {} IN
  CASE node.ast \in {"List", "Tuple"} /\ Len(node.elts) = 2 ->
         After(node.elts[1], node.elts[2])
    [] node.ast = "Dict" /\ Len(node.keys) = 2 /\ LiteralKeys(node) ->
         After(node.values[1], node.values[2]) \ {node.keys[1].s}
    [] OTHER -> {}

SchemaErrors == {"SchemaError", "SchemaMissingKeyError", "SchemaWrongKeyError"}

\* C10: Check executes, then compares, then validates, and stops at the first
\* stage that fails: the comparison runs only on the scope of a manifest
\* whose every statement has executed, the validator runs
\* only on a scope the comparison let through, a scope that differs from the
\* expected one is reported as a CheckFailure even when it also violates the
\* schema, and a scope equal to the expected one that violates the schema
\* fails with the schema error.
C10_StagesInOrder ==
  /\ pc # "exec" =>
       content.ast = "Module" /\ idx = Len(Body) + 1 /\ Len(result_scope) = Len(Body)
  /\ pc \in {"validate", "done"} =>
       compare(expected_scope, actual_scope, <<>>,
               [expected_scope |-> expected_scope, actual_scope |-> actual_scope]) = NoExc
  /\ Compared /\ ~PyEq(expected_scope, actual_scope) /\ ~WellFormed(actual_scope) =>
       pc = "compare" /\ failure.exc = "CheckFailure"
  /\ Validated /\ PyEq(expected_scope, actual_scope) /\ ~WellFormed(actual_scope) =>
       pc = "validate" /\ failure.exc \in SchemaErrors

\* A scope that is not the expected one and violates the schema has got
\* through the comparison, and Check has failed with the schema's error.
C10_Witness ==
  /\ pc = "validate" /\ failure.exc \in SchemaErrors
  /\ ~PyEq(expected_scope, actual_scope)
  /\ expected_scope = D1(StrV(s_deps), ListV(<<v_a>>))
  /\ actual_scope = D1(StrV(s_deps), v_a)

\* ------------------------------------------------------------ SplitCl's question

\* The run of SplitCl has its map of more CLs than the limit allows unasked.
ManyCls ==
  entry = "SplitCl" /\ Cardinality(DOMAIN files_split_by_owners) > CL_SPLIT_FORCE_LIMIT

\* C11: whenever a run of SplitCl would generate more than CL_SPLIT_FORCE_LIMIT
\* CLs, no branch is created and no CL is uploaded before the user was asked,
\* and after an answer other than "y" the run is over with no branch created
\* and no CL uploaded.
C11_AskedBeforeManyCls ==
  ManyCls =>
    /\ branches \cup uploaded # {} => prompted
    /\ prompted /\ answer # <<"y">> => at = "done" /\ branches = {} /\ uploaded = {}

\* A run of more CLs than the limit has uploaded a CL and never asked.
C11_Witness == ManyCls /\ uploaded # {} /\ ~prompted

\* ------------------------------------------------------------ the constants

\* The tree reads no name other than None, True and False (the name of the
\* function of a call is not read from the environment).
RECURSIVE OnlyConstants(_)
OnlyConstants(node) ==
  IF node.ast = "Name" THEN node.id \in ConstantNames
  ELSE \A c \in Children(node, FALSE) :
         (node.ast = "Call" /\ c = node.func /\ c.ast = "Name") \/ OnlyConstants(c)

\* The last statement's value evaluated with nothing exposed.
Unexposed == gclient_eval(LastNode, global_scope, FALSE)

\* Entry i of the literal has a string key that no later entry has, and its
\* value is the bare name of a constant.
ReadsConstant(d, i) ==
  /\ d.keys[i].ast = "Str"
  /\ \A j \in (i + 1)..Len(d.keys) : d.keys[j] # d.keys[i]
  /\ d.values[i].ast = "Name"
  /\ d.values[i].id \in ConstantNames

\* C12: the names None, True and False give the constants in every
\* evaluation: a statement whose value is one of the three names binds the
\* constant whatever the statements before it were; an expression that reads
\* no other name has the value it has with nothing exposed, so no key of a
\* `vars` literal changes what the names give in later entries and nested
\* expressions; and an entry of a dict literal whose value is one of the
\* names holds the constant, whatever the keys before it.
C12_ConstantsAreFixed ==
  /\ \A i \in 1..Len(result_scope) :
       IsAssignment(i) /\ Body[i].value.ast = "Name" /\ Body[i].value.id \in ConstantNames
         => result_scope[i] = <<StrV(TargetOf(i)), ConstantOf(Body[i].value.id)>>
  /\ Evaluated /\ IsAssignment(Last) /\ OnlyConstants(LastNode)
       => value.ok = Unexposed.ok /\ value.val = Unexposed.val
  /\ Evaluated /\ IsAssignment(Last) /\ LastNode.ast = "Dict" /\ value.ok
       => \A i \in 1..Len(LastNode.keys) :
            ReadsConstant(LastNode, i)
              => DictGet(value.val.items, StrV(LastNode.keys[i].s))
                   = ConstantOf(LastNode.values[i].id)

\* A `vars` literal bound the name of a constant to a string and then read
\* the constant in its next entry, which holds the constant; the statement
\* after it read the same name and bound the constant too.
C12_Witness ==
  /\ Len(Body) = 2 /\ Len(result_scope) = 2
  /\ TargetOf(1) = s_vars
  /\ Body[1].value.ast = "Dict" /\ Len(Body[1].value.keys) = 2
  /\ Body[1].value.keys[1].ast = "Str" /\ Body[1].value.keys[1].s \in ConstantNames
  /\ Body[1].value.values[2] = Name(Body[1].value.keys[1].s)
  /\ Body[2].value = Name(Body[1].value.keys[1].s)
  /\ LET c == Body[1].value.keys[1].s
         bound == result_scope[1][2].items IN
       /\ DictGet(bound, StrV(c)) = StrV(id_y)
       /\ DictGet(bound, StrV(Body[1].value.keys[2].s)) = ConstantOf(c)
       /\ result_scope[2][2] = ConstantOf(c)

\* ------------------------------------------------------------ the split of the files

\* GetFilesSplitByOwners has returned its map.
MapReturned == entry # "" /\ at \in {"num_cls", "upload", "done"} /\ returned # 1

\* The keys of the returned map that list the file.
KeysOfFile(f) == {k \in DOMAIN files_split_by_owners : f \in files_split_by_owners[k]}

\* C13: the map GetFilesSplitByOwners returns is a partition of its input:
\* after the merge loop every input file is in the file set of exactly one
\* key, for every set of files, owners database and cl_size, also when a
\* parent directory's candidate reached cl_size, became a change list, and
\* the directory received further files afterwards.
C13_MapPartitionsTheFiles ==
  MapReturned => \A f \in files : Cardinality(KeysOfFile(f)) = 1

\* A directory's candidate reached cl_size and became a change list, the same
\* directory became a change list again with further files, and a file of
\* the input is under no key of the returned map.
C13_Witness ==
  /\ MapReturned
  /\ \E i, j \in 1..Len(change_lists) : i < j /\ change_lists[i].path = change_lists[j].path
  /\ \E f \in files : KeysOfFile(f) = {}

====
